---- MODULE Spec2Model ----
(***************************************************************************)
(* Model of scraper/scrape.py (mietmap): the rate limiter, the persistent  *)
(* memoizer, the geocoding layer built from them, the listing store, the   *)
(* pagination driver, the coordinate backfill and the run orchestrator.    *)
(*                                                                         *)
(* Three specifications share the definitions:                             *)
(*   SpecLimiter  a function wrapped by rate_limited(calls, seconds),      *)
(*                for every small configuration, driven by a caller;       *)
(*   SpecGeo      get_coordinates = memoize_persistently(rate_limited()    *)
(*                (geocode)), looked up by a caller, over process restarts;*)
(*   Spec         the whole program run (the __main__ block), repeated.    *)
(*                                                                         *)
(* Time is an integer count of clock ticks.  time.time() reads clock.      *)
(***************************************************************************)
EXTENDS Integers, Sequences, FiniteSets, TLC

VARIABLES
    calls,        \* rate_limited's parameter `calls`
    seconds,      \* rate_limited's parameter `seconds`, in ticks
    clock,        \* the value time.time() returns
    last_calls,   \* the decorator's closure list last_calls
    delay,        \* the argument of the last time.sleep(delta), or NoDelay
    executed,     \* history: the times at which the wrapped function ran
                  \* (in Spec: in this run)
    cache,        \* memoize_persistently's in-memory dict
    file,         \* the pickled mapping on disk, or NoFile
    run,          \* history: which process (1, 2, ...) is running (SpecGeo)
    ret,          \* what the get_coordinates call of the last step did
                  \* ([op |-> "none"] when the last step made no call)
    stored,       \* history: key -> [value, run] of the first miss for
                  \* the key that returned normally (in Spec: in this run)
    boundary,     \* history: Len(executed) when this process started
    raised,       \* history: the keys for which a get_coordinates call raised
                  \* (in Spec: in this run)
    pc,           \* the orchestrator's position
    db,           \* the listings table: id -> row
    num_pages,    \* get_new_listings' num_pages: << >> is None, <<n>> is n
    page_index,   \* get_new_listings' page_index
    fetched,      \* get_new_listings' page, the page fetched last: << >>
                  \* before the first page, else <<page>>
    listings,     \* get_new_listings' listings[0], the mapping id -> listing
                  \* of the page fetched last: << >> before the first page,
                  \* else <<mapping>>
    new_count,    \* the value store_listings returned last
    cursor,       \* add_coordinates: the selected rows not yet visited
    updates,      \* add_coordinates' list updates
    log,          \* the log records of this run, by kind; the records of
                  \* the passes of one ingestion loop are kept as one
    geocoded,     \* history: the rows add_coordinates sent to get_coordinates
                  \* in this run
    conn,         \* the sqlite3 connection: "none", "open" or "closed"
    exported,     \* history: which JSON files this run has written
    failedAt,     \* history: the stage that raised in this run, or "none"
    raisedIn,     \* history: the function whose statement raised, or "none"
    procs         \* SpecShared: the processes sharing one cache file,
                  \* process -> [pc, cache]

vars == <<calls, seconds, clock, last_calls, delay, executed, cache, file, run,
          ret, stored, boundary, raised, pc, db, num_pages, page_index,
          fetched, listings, new_count, cursor, updates, log, geocoded, conn, exported, failedAt, raisedIn, procs>>

limiterVars == <<calls, seconds, clock, last_calls, delay, executed>>
memoVars == <<cache, file, run, ret, stored, boundary, raised>>
runVars == <<pc, db, num_pages, page_index, fetched, listings, new_count, cursor, updates, log,
             geocoded, conn, exported, failedAt, raisedIn>>

----------------------------------------------------------------------------
(* Bounds of the model. *)

MaxCalls == 2          \* configurations calls in 1..MaxCalls
MaxSeconds == 2        \* configurations seconds in 1..MaxSeconds (ticks)
MaxTime == 4           \* the clock stops at MaxTime
MaxExecuted == 5       \* executions of the wrapped function per behaviour
MaxOvershoot == 1      \* ticks by which time.time() after a sleep may exceed
                       \* the requested wake-up time
TicksPerSecond == 2    \* clock ticks in one second
MaxRuns == 2           \* processes started one after the other

(* Program constants. *)
DefaultCalls == 1      \* rate_limited(calls=1, ...)
DefaultSeconds == 1    \* rate_limited(..., seconds=1)

None == "None"         \* Python's None, SQL NULL
NoDelay == 0 - 1       \* no time.sleep call was made
\* The cache file: whether it exists, and the mapping pickled in it.
NoFile == [exists |-> FALSE, data |-> << >>]

\* No export yet: neither JSON file has been written.
NoExport == [markers |-> FALSE, data |-> FALSE]

\* ret when the step made no get_coordinates call.
NoCall == [op |-> "none", key |-> << >>, value |-> << >>, ran |-> 0]

Min(a, b) == IF a <= b THEN a ELSE b
Max(a, b) == IF a >= b THEN a ELSE b

\* m with key k bound to v (dict assignment m[k] = v).
Put(m, k, v) == [x \in DOMAIN m \cup {k} |-> IF x = k THEN v ELSE m[x]]

----------------------------------------------------------------------------
(* rate_limited: lines 202-227.                                            *)

\* line 216: last_calls[:] = [x for x in last_calls if now - x <= seconds]
Recent(lc, now) == SelectSeq(lc, LAMBDA x : now - x <= seconds)

\* A variant of Delta that never waits.
Delta_none(lc, now) == 0

\* A variant of Delta that always waits for the oldest kept entry.
Delta_oldest(lc, now) == lc[1] + seconds - now

\* lines 218-221: the sleep time, read when len(last_calls) >= calls.
\* Python's last_calls[-1] is the last element, last_calls[1] the second.
Delta(lc, now) ==
    IF calls = 1
    THEN lc[Len(lc)] + seconds - now
    ELSE lc[2] + seconds - now

\* The values time.time() may return at line 223, after time.sleep(d) (or
\* after no sleep, d = 0): not before the wake-up time.
AfterSleep(now, d) == { t \in (now + d)..(now + d + MaxOvershoot) : t <= MaxTime }

\* lines 214-224: wrapper.  t is the value of the second time.time().
\* The wrapped function runs at line 224, at time t.
rate_limited(t) ==
    LET now == clock
        kept == Recent(last_calls, now)
        limited == Len(kept) >= calls
        d == IF limited THEN Delta(kept, now) ELSE 0
    IN  /\ d >= 0                       \* time.sleep raises on a negative
        /\ t \in AfterSleep(now, d)
        /\ delay' = IF limited THEN d ELSE NoDelay
        /\ last_calls' = Append(kept, t)
        /\ clock' = t
        /\ executed' = Append(executed, t)

\* Time passes between two statements of the caller.
Tick ==
    /\ clock < MaxTime
    /\ clock' = clock + 1

----------------------------------------------------------------------------
(* SpecLimiter: a caller invoking a function decorated with                *)
(* rate_limited(calls, seconds), for every configuration in the bounds.    *)

\* The processes of SpecShared, and their state before any has started.
Procs == {1, 2}
NoProcs == [p \in Procs |-> [pc |-> "off", cache |-> << >>]]

IdleMemo ==
    /\ procs = NoProcs
    /\ cache = << >>
    /\ file = NoFile
    /\ run = 1
    /\ ret = NoCall
    /\ stored = << >>
    /\ boundary = 0
    /\ raised = {}

IdleRun ==
    /\ pc = "off"
    /\ db = << >>
    /\ num_pages = << >>
    /\ page_index = 1
    /\ fetched = << >>
    /\ listings = << >>
    /\ new_count = 0
    /\ cursor = << >>
    /\ updates = << >>
    /\ log = << >>
    /\ geocoded = {}
    /\ conn = "none"
    /\ exported = NoExport
    /\ failedAt = "none"
    /\ raisedIn = "none"

InitLimiter ==
    /\ calls \in 1..MaxCalls
    /\ seconds \in 1..MaxSeconds
    /\ clock = 0
    /\ last_calls = << >>
    /\ delay = NoDelay
    /\ executed = << >>
    /\ IdleMemo
    /\ IdleRun

LimiterTick ==
    /\ Tick
    /\ UNCHANGED <<calls, seconds, last_calls, delay, executed>>
    /\ UNCHANGED <<memoVars, runVars, procs>>

LimiterInvoke ==
    /\ Len(executed) < MaxExecuted
    /\ \E t \in 0..MaxTime : rate_limited(t)
    /\ UNCHANGED <<calls, seconds>>
    /\ UNCHANGED <<memoVars, runVars, procs>>

NextLimiter == LimiterTick \/ LimiterInvoke

SpecLimiter == InitLimiter /\ [][NextLimiter]_vars

\* The number of executions in the trailing window (t - seconds, t].
InWindow(t) ==
    Cardinality({ i \in DOMAIN executed :
                    t - seconds < executed[i] /\ executed[i] <= t })

\* C1: the wrapped function is executed at most `calls` times in any
\* trailing window of `seconds` seconds, for every configuration and every
\* sequence of invocation times.  (It is enough to look at the windows that
\* end at an execution.)
C1_AtMostCallsPerWindow ==
    \A i \in DOMAIN executed : InWindow(executed[i]) <= calls

----------------------------------------------------------------------------
(* memoize_persistently: lines 230-270, and get_coordinates: 275-293.      *)

\* A variant of LoadCache that never reads the file.
LoadCache_fresh(f) == << >>

\* lines 248-254: the cache a starting process loads from the file; an
\* absent file (ENOENT) gives the empty dict.
LoadCache(f) == IF f.exists THEN f.data ELSE << >>

\* line 260: key = args + tuple(sorted(kwargs.items())).  Every call of the
\* program passes the address alone (line 389), so kwargs is empty.
Key(address) == <<address>>

\* A variant of Dump that adds the mapping to what the file holds, keeping
\* the entries of the file the mapping lacks.
Dump_merged(c) ==
    [exists |-> TRUE,
     data |-> [k \in DOMAIN file.data \cup DOMAIN c |->
                 IF k \in DOMAIN c THEN c[k] ELSE file.data[k]]]

\* A variant of Dump that writes the mapping as it was before line 264.
Dump_stale(c) == [exists |-> TRUE, data |-> cache]

\* lines 265-266: pickle.dump(cache, cache_file) into the file opened 'wb':
\* the file holds the whole mapping c afterwards.
Dump(c) == [exists |-> TRUE, data |-> c]

\* What _geolocator.geocode may do (line 290): raise (timeout, transport
\* error), return no location, or return a location.
Latitudes == {"49.0", "49.1"}
Longitudes == {"8.4"}
Replies ==
    {[kind |-> "raise", latitude |-> None, longitude |-> None],
     [kind |-> "nomatch", latitude |-> None, longitude |-> None]}
    \cup [kind : {"location"}, latitude : Latitudes, longitude : Longitudes]

NoReply == [kind |-> "nomatch", latitude |-> None, longitude |-> None]

\* lines 291-293: the value get_coordinates' body returns for a reply.
Geocode(reply) ==
    IF reply.kind = "nomatch"
    THEN <<None, None>>
    ELSE <<reply.latitude, reply.longitude>>

\* line 262: the cache holds the key: return cache[key].  Neither the rate
\* limiter's wrapper nor the body runs.
CacheHit(key) ==
    /\ key \in DOMAIN cache
    /\ UNCHANGED <<clock, last_calls, delay, executed, cache, file, stored,
                   raised>>
    /\ ret' = [op |-> "hit", key |-> key, value |-> cache[key],
               ran |-> Len(executed') - Len(executed)]

\* A variant of CacheMissRaise that stores "not found" for a failed lookup.
CacheMissRaise_cached(key, t) ==
    /\ key \notin DOMAIN cache
    /\ rate_limited(t)
    /\ cache' = Put(cache, key, <<None, None>>)
    /\ file' = [exists |-> TRUE, data |-> cache']
    /\ raised' = raised \cup {key}
    /\ ret' = [op |-> "raise", key |-> key, value |-> << >>,
               ran |-> Len(executed') - Len(executed)]
    /\ UNCHANGED stored

\* lines 263-264 when f raises: the rate limiter's wrapper has run (lines
\* 215-223) and the body raised at line 290; the assignment of line 264 and
\* the dump of lines 265-266 are not reached.
CacheMissRaise(key, t) ==
    /\ key \notin DOMAIN cache
    /\ rate_limited(t)
    /\ raised' = raised \cup {key}
    /\ ret' = [op |-> "raise", key |-> key, value |-> << >>,
               ran |-> Len(executed') - Len(executed)]
    /\ UNCHANGED <<cache, file, stored>>

\* lines 263-267 when f returns value: cache[key] = value, the whole cache
\* is dumped to the file, value is returned.
CacheMissStore(key, value, t) ==
    /\ key \notin DOMAIN cache
    /\ rate_limited(t)
    /\ cache' = Put(cache, key, value)
    /\ file' = Dump(cache')
    /\ ret' = [op |-> "miss", key |-> key, value |-> value,
               ran |-> Len(executed') - Len(executed)]
    /\ stored' = IF key \in DOMAIN stored
                 THEN stored
                 ELSE Put(stored, key, [value |-> value, run |-> run])
    /\ UNCHANGED raised

\* A variant of get_coordinates with the decorators in the other order: the
\* rate limiter's wrapper around the memoizer's.
get_coordinates_limiter_outside(address, reply, t) ==
    \/ /\ Key(address) \in DOMAIN cache
       /\ rate_limited(t)
       /\ UNCHANGED <<cache, file, stored, raised>>
       /\ ret' = [op |-> "hit", key |-> Key(address),
                  value |-> cache[Key(address)], ran |-> 0]
    \/ /\ reply.kind = "raise"
       /\ CacheMissRaise(Key(address), t)
    \/ /\ reply.kind # "raise"
       /\ CacheMissStore(Key(address), Geocode(reply), t)

\* lines 275-293: get_coordinates(address), the memoizer's wrapper around
\* the rate limiter's wrapper around the body.  reply is what the external
\* geocoder does if it is asked, t the time read at line 223.
get_coordinates(address, reply, t) ==
    \/ CacheHit(Key(address))
    \/ /\ reply.kind = "raise"
       /\ CacheMissRaise(Key(address), t)
    \/ /\ reply.kind # "raise"
       /\ CacheMissStore(Key(address), Geocode(reply), t)

\* A new process: the module is imported again (lines 210-211: a fresh
\* last_calls; lines 247-254: the cache is loaded from the file).
StartProcess ==
    /\ last_calls' = << >>
    /\ cache' = LoadCache(file)
    /\ delay' = NoDelay
    /\ ret' = NoCall
    /\ UNCHANGED <<calls, seconds, clock, file>>

----------------------------------------------------------------------------
(* SpecGeo: a caller looking addresses up with get_coordinates, time       *)
(* passing, and the process ending and a new one starting.                 *)

GeoAddresses == {"Hauptstrasse 12, Innenstadt, Karlsruhe",
                 " , , Karlsruhe"}

InitGeo ==
    /\ calls = DefaultCalls
    /\ seconds = DefaultSeconds * TicksPerSecond
    /\ clock = 0
    /\ last_calls = << >>
    /\ delay = NoDelay
    /\ executed = << >>
    /\ IdleMemo
    /\ IdleRun

GeoTick ==
    /\ Tick
    /\ ret' = NoCall
    /\ UNCHANGED <<calls, seconds, last_calls, delay, executed>>
    /\ UNCHANGED <<cache, file, run, stored, boundary, raised, runVars, procs>>

\* The caller looks up an address that is in the cache.
\* (The geocoder is not asked and no time is read: the reply and the time
\* passed are not used.)
GeoLookupHit ==
    /\ \E address \in GeoAddresses :
          /\ Key(address) \in DOMAIN cache
          /\ get_coordinates(address, NoReply, clock)
    /\ UNCHANGED <<calls, seconds, run, boundary, runVars, procs>>

\* The caller looks up an address that is not in the cache, and the
\* geocoder answers.
GeoLookupMiss ==
    /\ Len(executed) < MaxExecuted
    /\ \E address \in GeoAddresses, reply \in Replies, t \in 0..MaxTime :
          /\ Key(address) \notin DOMAIN cache
          /\ reply.kind # "raise"
          /\ get_coordinates(address, reply, t)
    /\ UNCHANGED <<calls, seconds, run, boundary, runVars, procs>>

\* The caller looks up an address that is not in the cache, and the
\* geocoder raises; the caller catches the exception.
GeoLookupRaise ==
    /\ Len(executed) < MaxExecuted
    /\ \E address \in GeoAddresses, reply \in Replies, t \in 0..MaxTime :
          /\ Key(address) \notin DOMAIN cache
          /\ reply.kind = "raise"
          /\ get_coordinates(address, reply, t)
    /\ UNCHANGED <<calls, seconds, run, boundary, runVars, procs>>

\* The process ends and the program is started again.
GeoRestart ==
    /\ run < MaxRuns
    /\ StartProcess
    /\ run' = run + 1
    /\ boundary' = Len(executed)
    /\ UNCHANGED <<executed, stored, raised>>
    /\ UNCHANGED <<runVars, procs>>

NextGeo ==
    GeoTick \/ GeoLookupHit \/ GeoLookupMiss \/ GeoLookupRaise \/ GeoRestart

SpecGeo == InitGeo /\ [][NextGeo]_vars

\* The number of requests this process sent in the trailing window
\* (t - seconds, t].
InWindowOfProcess(t) ==
    Cardinality({ i \in (boundary + 1)..Len(executed) :
                    t - seconds < executed[i] /\ executed[i] <= t })

\* C2 (as claimed): over process restarts the external service receives at
\* most max-calls (default 1) requests in any trailing window of the default
\* length, counting the requests of every process.
C2_RateKeptAcrossRestarts ==
    \A i \in DOMAIN executed : InWindow(executed[i]) <= DefaultCalls

\* C2 (amended): the requests one process sends keep the rate: at most
\* max-calls of them in any trailing window (t - seconds, t].
C2_RateKeptWithinProcess ==
    \A i \in (boundary + 1)..Len(executed) :
        InWindowOfProcess(executed[i]) <= DefaultCalls

\* C2 witness: a second process sent two requests and the limiter made the
\* second one wait.
C2_Witness ==
    /\ run = 2
    /\ Len(executed) - boundary >= 2
    /\ delay > 0

\* C3: once a miss for a key returned normally in an earlier process, a call
\* with the same key in a later process returns the value stored then and
\* does not run the wrapped function.
C3_HitAfterRestart ==
    (/\ ret.op # "none"
     /\ ret.key \in DOMAIN stored
     /\ stored[ret.key].run < run)
    => (/\ ret.op = "hit"
        /\ ret.value = stored[ret.key].value
        /\ ret.ran = 0)

\* C3 witness: the second process returned, from the cache, a location the
\* first process had stored.
C3_Witness ==
    /\ run = 2
    /\ ret.op = "hit"
    /\ ret.key \in DOMAIN stored
    /\ stored[ret.key].run = 1
    /\ ret.value = stored[ret.key].value
    /\ ret.value # <<None, None>>

\* C4: a lookup served from the cache does not invoke the geocoder, leaves
\* the limiter's timestamp window unchanged and takes no time; a timestamp
\* is appended to the window only by a lookup whose key was not cached.
C4_HitSkipsLimiter ==
    [][/\ (ret'.op = "hit" =>
              /\ executed' = executed
              /\ last_calls' = last_calls
              /\ clock' = clock
              /\ delay' = delay)
       /\ ((run' = run /\ last_calls' # last_calls) =>
              /\ ret'.op \in {"miss", "raise"}
              /\ ret'.key \notin DOMAIN cache
              /\ executed' = Append(executed, clock'))]_vars

\* C4 witness: a lookup was served from the cache while the limiter's
\* window held a timestamp young enough to delay a request.
C4_Witness ==
    /\ ret.op = "hit"
    /\ Len(last_calls) >= 1
    /\ clock - last_calls[Len(last_calls)] < seconds

C6_RaiseNotCached ==
    /\ [][ret'.op = "raise" => (cache' = cache /\ file' = file)]_vars
    /\ [](\A k \in DOMAIN cache \cup DOMAIN file.data : k \in DOMAIN stored)
    /\ [][(ret'.op # "none" /\ ret'.key \in raised
            /\ ret'.key \notin DOMAIN stored) => ret'.ran = 1]_vars

\* C6 witness: a later process looked up a key whose lookup had raised in
\* the first process, and the geocoder was asked again.
C6_Witness ==
    /\ run = 2
    /\ ret.op = "miss"
    /\ ret.key \in raised
    /\ stored[ret.key].run = 2
    /\ ret.ran = 1

----------------------------------------------------------------------------
(* Locale parsers and the listing extractor: lines 121-191.                *)
(*                                                                         *)
(* A number token is the sequence of its characters.  A float is kept in   *)
(* tenths (the pages of the model carry at most one decimal).  An address  *)
(* text is kept as the list address.split(', ') gives, each field stripped *)
(* and kept as the list field.rsplit(' ', 1) gives: one string when the    *)
(* field has no space, else the part before and the part after its last    *)
(* space.                                                                  *)

Digits == {"0", "1", "2", "3", "4", "5", "6", "7", "8", "9"}

DigitValue(c) ==
    CASE c = "0" -> 0 [] c = "1" -> 1 [] c = "2" -> 2 [] c = "3" -> 3
      [] c = "4" -> 4 [] c = "5" -> 5 [] c = "6" -> 6 [] c = "7" -> 7
      [] c = "8" -> 8 [] c = "9" -> 9

RECURSIVE DecimalValue(_)
DecimalValue(cs) ==
    IF cs = << >> THEN 0
    ELSE 10 * DecimalValue(SubSeq(cs, 1, Len(cs) - 1)) + DigitValue(cs[Len(cs)])

\* line 128: float(s.replace('.', '').replace(',', '.')).  The dots are
\* dropped, each comma becomes the decimal point, and float() raises
\* ValueError unless what is left is digits with at most one point.
parse_german_float(token) ==
    LET noDots == SelectSeq(token, LAMBDA c : c # ".")
        points == { i \in DOMAIN noDots : noDots[i] = "," }
        digits == { i \in DOMAIN noDots : noDots[i] \in Digits }
        p == IF points = {} THEN Len(noDots) + 1 ELSE CHOOSE i \in points : TRUE
        whole == SubSeq(noDots, 1, p - 1)
        frac == SubSeq(noDots, p + 1, Len(noDots))
    IN  IF \/ Cardinality(points) > 1
           \/ digits = {}
           \/ Cardinality(points) + Cardinality(digits) # Len(noDots)
        THEN [error |-> "ValueError", value |-> 0]
        ELSE [error |-> "",
              value |-> 10 * DecimalValue(whole)
                        + (IF frac = << >> THEN 0 ELSE DigitValue(frac[1]))]

\* line 142: re.sub(r'([Ss])(trasse|tr.)\Z', r'\1trasze', street), on the
\* street names of the model's pages ("sz" stands for the sharp s).
NormalizeStreet(street) ==
    CASE street = "Hauptstr." -> "Hauptstrasze"
      [] street = "Hauptstrasse" -> "Hauptstrasze"
      [] OTHER -> street

\* The text of a field kept as its rsplit(' ', 1) list.
FieldText(field) ==
    IF Len(field) = 1 THEN field[1] ELSE field[1] \o " " \o field[2]

\* lines 131-144: parse_address.  fields is the list of line 135.
parse_address(fields) ==
    IF Len(fields) = 2
    THEN [error |-> "", street |-> None, number |-> None,
          suburb |-> FieldText(fields[1])]
    ELSE IF Len(fields[1]) # 2
    THEN \* line 141: one value to unpack into street, number
         [error |-> "ValueError", street |-> None, number |-> None,
          suburb |-> None]
    ELSE IF Len(fields) < 2
    THEN \* line 143: fields[1] of a one-element list
         [error |-> "IndexError", street |-> None, number |-> None,
          suburb |-> None]
    ELSE [error |-> "", street |-> NormalizeStreet(fields[1][1]),
          number |-> fields[1][2], suburb |-> FieldText(fields[2])]

NoLink == ""       \* a block with no <a href="/expose/...">

\* lines 176-182: the loop over the block's criteria.  acc carries rent and
\* area (<< >>: the name is not bound yet) and the error raised, if any.
RECURSIVE ScanCriteria(_, _, _)
ScanCriteria(criteria, i, acc) ==
    IF i > Len(criteria) \/ acc.error # "" THEN acc
    ELSE LET dd == criteria[i]
             v == parse_german_float(dd.token)
         IN  IF dd.suffix = "eur"
             THEN ScanCriteria(criteria, i + 1,
                      IF v.error # "" THEN [acc EXCEPT !.error = v.error]
                      ELSE [acc EXCEPT !.rent = <<v.value>>])
             ELSE IF dd.suffix = "m2"
             THEN ScanCriteria(criteria, i + 1,
                      IF v.error # "" THEN [acc EXCEPT !.error = v.error]
                      ELSE [acc EXCEPT !.area = <<v.value>>])
             ELSE ScanCriteria(criteria, i + 1, acc)

\* lines 155-190: one pass of the loop over the page's blocks.  st carries
\* listings, no_addresses, the local names rent and area, and the error.
ExtractBlock(entry, st) ==
    IF entry.link = NoLink
    THEN st                                            \* line 162: continue
    ELSE IF entry.address.kind = "nodiv"
    THEN [st EXCEPT !.error = "AttributeError"]       \* line 163
    ELSE
      LET missing == entry.address.kind = "nospan"     \* line 170
          pa == IF missing
                THEN [error |-> "", street |-> "", number |-> "",
                      suburb |-> ""]                   \* line 173
                ELSE parse_address(entry.address.fields)
          sc == ScanCriteria(entry.criteria, 1,
                    [rent |-> st.rent, area |-> st.area, error |-> ""])
      IN  IF pa.error # "" THEN [st EXCEPT !.error = pa.error]
          ELSE IF sc.error # "" THEN [st EXCEPT !.error = sc.error]
          ELSE IF sc.rent = << >> \/ sc.area = << >>
          THEN [st EXCEPT !.error = "UnboundLocalError"]  \* lines 187-188
          ELSE [listings |-> Put(st.listings, entry.link,
                                 [street |-> pa.street, number |-> pa.number,
                                  suburb |-> pa.suburb, rent |-> sc.rent[1],
                                  area |-> sc.area[1]]),
                no_addresses |-> st.no_addresses + (IF missing THEN 1 ELSE 0),
                rent |-> sc.rent, area |-> sc.area, error |-> ""]

RECURSIVE ExtractFrom(_, _, _)
ExtractFrom(blocks, i, st) ==
    IF i > Len(blocks) \/ st.error # "" THEN st
    ELSE ExtractFrom(blocks, i + 1, ExtractBlock(blocks[i], st))

\* lines 147-191: extract_listings(soup): listings, no_addresses, or the
\* error raised.
extract_listings(page) ==
    ExtractFrom(page.blocks, 1,
                [listings |-> << >>, no_addresses |-> 0, rent |-> << >>,
                 area |-> << >>, error |-> ""])

\* lines 194-199: extract_number_of_pages(soup).  page.pager is << >> when
\* the page has no pageSelection control, else <<n>>, n the number in its
\* last option.
extract_number_of_pages(page) ==
    IF page.pager = << >>
    THEN [error |-> "AttributeError", value |-> 0]
    ELSE [error |-> "", value |-> page.pager[1]]

----------------------------------------------------------------------------
(* The listing store: lines 55-96.                                         *)

\* The row INSERT writes for a listing (lines 92-93): the six columns given,
\* latitude and longitude NULL, date the current time (line 71).
NewRow(listing, now) ==
    [street |-> listing.street, number |-> listing.number,
     suburb |-> listing.suburb, rent |-> listing.rent, area |-> listing.area,
     latitude |-> None, longitude |-> None, date |-> now]

\* A variant of InsertOrIgnore that replaces the row of a known id.
InsertOrReplace(table, items, now) ==
    [id \in DOMAIN table \cup DOMAIN items |->
        IF id \in DOMAIN items THEN NewRow(items[id], now) ELSE table[id]]

\* lines 92-95: INSERT OR IGNORE of every listing, keyed by id, committed.
InsertOrIgnore(table, items, now) ==
    [id \in DOMAIN table \cup DOMAIN items |->
        IF id \in DOMAIN table THEN table[id] ELSE NewRow(items[id], now)]

\* cursor.rowcount after executemany (lines 94-96, 392-395): the changes of
\* the executions summed; with no parameter set nothing is executed and
\* rowcount keeps its reset value -1 (which line 395 guards against).
Rowcount(executions, changes) ==
    IF executions = 0 THEN 0 - 1 ELSE changes

\* lines 81-96: store_listings(db, listings): the table afterwards and the
\* value returned.  items is the mapping `listings`.
store_listings(table, items, now) ==
    [db |-> InsertOrIgnore(table, items, now),
     count |-> Rowcount(Cardinality(DOMAIN items),
                        Cardinality(DOMAIN items \ DOMAIN table))]

----------------------------------------------------------------------------
(* The pages the site may serve.                                           *)

MaxPages == 2          \* the pager's last option is in 0..MaxPages
MaxPageIndex == 2      \* pages fetched per run (the loop has no bound of
                       \* its own when the pager says 0)

CITY == "Karlsruhe"    \* config['city'], line 53

Ids == {"1", "2"}
IdOrder == <<"1", "2">>     \* the order a scan of the table visits the ids

AddressFull ==
    [kind |-> "text",
     fields |-> << <<"Hauptstr.", "12">>, <<"Innenstadt">>, <<CITY>> >>]
AddressSuburb ==
    [kind |-> "text", fields |-> << <<"Innenstadt">>, <<CITY>> >>]
AddressMissing == [kind |-> "nospan", fields |-> << >>]
AddressNoNumber ==
    [kind |-> "text",
     fields |-> << <<"Hauptstrasse">>, <<"Innenstadt">>, <<CITY>> >>]

Eur(token) == [suffix |-> "eur", token |-> token]
M2(token) == [suffix |-> "m2", token |-> token]
Rooms == [suffix |-> "other", token |-> <<"3">>]

Entry(link, address, criteria) ==
    [link |-> link, address |-> address, criteria |-> criteria]

E1 == Entry("1", AddressFull, <<Eur(<<"5", "0", "0">>), M2(<<"5", "0">>), Rooms>>)
E1dearer ==
    Entry("1", AddressSuburb,
          <<Eur(<<"1", ".", "2", "0", "0">>), M2(<<"4", "2", ",", "5">>)>>)
E2missing == Entry("2", AddressMissing, <<Eur(<<"5", "0", "0">>), M2(<<"5", "0">>)>>)
E2suburb == Entry("2", AddressSuburb, <<Eur(<<"5", "0", "0">>), M2(<<"5", "0">>)>>)
E2zero == Entry("2", AddressFull, <<Eur(<<"5", "0", "0">>), M2(<<"0">>)>>)
E2norent == Entry("2", AddressFull, <<M2(<<"5", "0">>)>>)
Ebad == Entry("2", AddressNoNumber, <<Eur(<<"5", "0", "0">>), M2(<<"5", "0">>)>>)
E2noprice ==
    Entry("2", AddressFull, <<Eur(<<"k", ".", "A", ".">>), M2(<<"5", "0">>)>>)
Enolink == Entry(NoLink, AddressFull, <<Eur(<<"5", "0", "0">>), M2(<<"5", "0">>)>>)

BlockLists ==
    { << >>, <<E1>>, <<E1dearer>>, <<E2missing>>, <<E2suburb>>, <<E2zero>>,
      <<E1, E2norent>>, <<E1, Ebad>>, <<E1, E2noprice>>, <<Enolink>> }

SitePages ==
    [pager : {<< >>} \cup { <<n>> : n \in 0..MaxPages }, blocks : BlockLists]

----------------------------------------------------------------------------
(* The run: lines 318-438.                                                 *)

Logged(record) ==
    log' = IF log[Len(log)] = record THEN log ELSE Append(log, record)

\* What the two extractors give for each page of the site.
PagerOf == [page \in SitePages |-> extract_number_of_pages(page)]
ListingsOf == [page \in SitePages |-> extract_listings(page)]

\* The locals of get_new_listings and add_coordinates, when neither
\* function is running.
NoLocals ==
    /\ num_pages' = << >>
    /\ page_index' = 1
    /\ fetched' = << >>
    /\ listings' = << >>
    /\ new_count' = 0
    /\ cursor' = << >>
    /\ updates' = << >>

\* A variant of Raise in which the failure of a stage is swallowed and the
\* orchestrator goes on with the stage after it.
Raise_resumed(stage) ==
    /\ failedAt' = stage
    /\ conn' = conn
    /\ pc' = CASE stage = "ingest" -> "backfill"
               [] stage = "backfill" -> "mkdirs"
               [] stage = "mkdirs" -> "markers"
               [] stage = "markers" -> "data"
               [] OTHER -> "close"
    /\ NoLocals

\* An exception leaves the with block of line 429: the generator of
\* prepare_database is resumed at line 76, its finally clause closes the
\* connection (line 78), and the except clause of line 435 is entered.  The
\* frames of the functions that were running are gone.
Raise(stage) ==
    /\ failedAt' = stage
    /\ conn' = "closed"
    /\ pc' = "except"
    /\ NoLocals

\* line 362: (not num_pages) or (page_index <= num_pages).  None and 0 are
\* both false for `not`.
LoopGuard ==
    IF num_pages = << >> THEN TRUE
    ELSE num_pages[1] = 0 \/ page_index <= num_pages[1]

\* lines 382-384: the rows the SELECT of add_coordinates returns.
MissingCoordinates(table) ==
    SelectSeq(IdOrder, LAMBDA id :
        /\ id \in DOMAIN table
        /\ table[id].latitude = None
        /\ table[id].suburb # None
        /\ table[id].street # None
        /\ table[id].number # None)

\* line 388: '%s %s, %s, %s' % (street, number, suburb, CITY)
Address(row) ==
    row.street \o " " \o row.number \o ", " \o row.suburb \o ", " \o CITY

\* A variant of ApplyUpdates whose UPDATE sets the latitude only.
ApplyUpdates_latitude(table, ups) ==
    [id \in DOMAIN table |->
        IF \E i \in DOMAIN ups : ups[i][3] = id
        THEN [table[id] EXCEPT
                 !.latitude = ups[CHOOSE i \in DOMAIN ups : ups[i][3] = id][1]]
        ELSE table[id]]

\* lines 392-394: UPDATE listings SET latitude=?, longitude=? WHERE id=?,
\* for each staged update in turn.
RECURSIVE ApplyUpdates(_, _)
ApplyUpdates(table, ups) ==
    IF ups = << >> THEN table
    ELSE LET u == Head(ups)
         IN  ApplyUpdates(
                 IF u[3] \in DOMAIN table
                 THEN [table EXCEPT ![u[3]].latitude = u[1],
                                    ![u[3]].longitude = u[2]]
                 ELSE table,
                 Tail(ups))

\* lines 404-405: the rows the SELECT of export_markers_to_json returns.
MarkerRows(table) ==
    { id \in DOMAIN table :
        table[id].latitude # None /\ table[id].number # None }

\* The state after the preamble of __main__ (lines 318-355) in a process
\* that has just been started.
InitRunLocals ==
    /\ pc = "prepare"
    /\ num_pages = << >>
    /\ page_index = 1
    /\ fetched = << >>
    /\ listings = << >>
    /\ new_count = 0
    /\ cursor = << >>
    /\ updates = << >>
    /\ log = <<"Started">>
    /\ conn = "none"
    /\ failedAt = "none"
    /\ raisedIn = "none"

Init ==
    /\ calls = DefaultCalls
    /\ seconds = DefaultSeconds * TicksPerSecond
    /\ clock = 0
    /\ last_calls = << >>
    /\ delay = NoDelay
    /\ executed = << >>
    /\ IdleMemo
    /\ InitRunLocals
    /\ db = << >>
    /\ geocoded = {}
    /\ exported = NoExport

\* What the geocoder does when add_coordinates asks it.
RunReplies == { reply \in Replies : reply.latitude # "49.1" }

\* No get_coordinates call in this step, and the geocoding layer untouched.
NoLookup ==
    /\ ret' = NoCall
    /\ UNCHANGED <<calls, seconds, clock, last_calls, delay, executed, cache,
                   file, run, stored, boundary, raised, procs>>

\* lines 60-76: prepare_database up to the yield.
PrepareDatabase ==
    /\ pc = "prepare"
    /\ conn' = "open"
    /\ pc' = "ingest"
    /\ NoLookup
    /\ UNCHANGED <<db, num_pages, page_index, fetched, listings, new_count, cursor, updates, log,
                   geocoded, exported, failedAt, raisedIn>>

\* line 60 raises (no connection), or line 61 raises with the connection
\* open: the try of line 75 has not been entered, so nothing closes it.
PrepareDatabaseRaises ==
    /\ pc = "prepare"
    /\ \E opened \in {"none", "open"} : conn' = opened
    /\ failedAt' = "prepare"
    /\ raisedIn' = "prepare_database"
    /\ pc' = "except"
    /\ NoLookup
    /\ UNCHANGED <<db, num_pages, page_index, fetched, listings, new_count, cursor, updates, log,
                   geocoded, exported>>

\* A variant of IngestPage that reads the number of pages from the first
\* page only.
IngestPage_once ==
    /\ pc = "ingest"
    /\ LoopGuard
    /\ page_index <= MaxPageIndex
    /\ \E page \in SitePages :
          LET pages == PagerOf[page]
              found == ListingsOf[page]
              result == store_listings(db, found.listings, clock)
          IN  /\ pages.error = ""
              /\ found.error = ""
              /\ num_pages' = IF num_pages = << >> THEN <<pages.value>>
                              ELSE num_pages
              /\ db' = result.db
              /\ fetched' = <<page>>
              /\ listings' = <<found.listings>>
              /\ new_count' = result.count
    /\ page_index' = page_index + 1
    /\ Logged("Fetching page")
    /\ NoLookup
    /\ UNCHANGED <<pc, cursor, updates, geocoded, conn, exported, failedAt, raisedIn>>

\* lines 362-374: one pass of the loop of get_new_listings, nothing raising.
IngestPage ==
    /\ pc = "ingest"
    /\ LoopGuard
    /\ page_index <= MaxPageIndex
    /\ \E page \in SitePages :
          LET pages == PagerOf[page]
              found == ListingsOf[page]
              result == store_listings(db, found.listings, clock)
          IN  /\ pages.error = ""
              /\ found.error = ""
              /\ num_pages' = <<pages.value>>
              /\ db' = result.db
              /\ fetched' = <<page>>
              /\ listings' = <<found.listings>>
              /\ new_count' = result.count
    /\ page_index' = page_index + 1
    /\ Logged("Fetching page")
    /\ NoLookup
    /\ UNCHANGED <<pc, cursor, updates, geocoded, conn, exported, failedAt, raisedIn>>

\* The functions a pass of the ingestion loop may raise in: get_page
\* (urlopen fails, line 117), extract_number_of_pages (line 365) and
\* extract_listings (line 366), the last two for the pages they raise on.
IngestFailures ==
    {"get_page"}
    \cup { "extract_number_of_pages" : page \in
              { q \in SitePages : PagerOf[q].error # "" } }
    \cup { "extract_listings" : page \in
              { q \in SitePages :
                  PagerOf[q].error = "" /\ ListingsOf[q].error # "" } }

\* lines 362-366 with get_page (line 364), extract_number_of_pages (line
\* 365) or extract_listings (line 366) raising.
IngestPageRaises ==
    /\ pc = "ingest"
    /\ LoopGuard
    /\ page_index <= MaxPageIndex
    /\ \E origin \in IngestFailures : raisedIn' = origin
    /\ Raise("ingest")
    /\ Logged("Fetching page")
    /\ NoLookup
    /\ UNCHANGED <<db, geocoded, exported>>

\* lines 362, 376-377: the loop ends.
IngestDone ==
    /\ pc = "ingest"
    /\ ~LoopGuard
    /\ Logged("Overall")
    /\ pc' = "backfill"
    /\ NoLocals
    /\ NoLookup
    /\ UNCHANGED <<db, geocoded, conn, exported, failedAt, raisedIn>>

\* lines 380-385: add_coordinates up to the loop.
BackfillSelect ==
    /\ pc = "backfill"
    /\ Logged("Looking up")
    /\ cursor' = MissingCoordinates(db)
    /\ updates' = << >>
    /\ pc' = "backfill_loop"
    /\ NoLookup
    /\ UNCHANGED <<db, num_pages, page_index, fetched, listings, new_count, geocoded, conn,
                   exported, failedAt, raisedIn>>

\* lines 386-391: one pass of the loop, get_coordinates returning.
BackfillRow ==
    /\ pc = "backfill_loop"
    /\ cursor # << >>
    /\ Len(executed) < MaxExecuted
    /\ LET id == Head(cursor)
       IN  /\ \E reply \in RunReplies, t \in 0..MaxTime :
                 /\ reply.kind # "raise"
                 /\ get_coordinates(Address(db[id]), reply, t)
           /\ geocoded' = geocoded \cup {id}
           /\ updates' = IF ret'.value[1] # None
                         THEN Append(updates, <<ret'.value[1], ret'.value[2], id>>)
                         ELSE updates
    /\ cursor' = Tail(cursor)
    /\ UNCHANGED <<calls, seconds, run, boundary, procs>>
    /\ UNCHANGED <<pc, db, num_pages, page_index, fetched, listings, new_count, log, conn,
                   exported, failedAt, raisedIn>>

\* lines 386-389 with get_coordinates raising: nothing in add_coordinates
\* catches it.
BackfillRowRaises ==
    /\ pc = "backfill_loop"
    /\ cursor # << >>
    /\ Len(executed) < MaxExecuted
    /\ Key(Address(db[Head(cursor)])) \notin DOMAIN cache
    /\ \E reply \in RunReplies, t \in 0..MaxTime :
          /\ reply.kind = "raise"
          /\ get_coordinates(Address(db[Head(cursor)]), reply, t)
    /\ geocoded' = geocoded \cup {Head(cursor)}
    /\ raisedIn' = "get_coordinates"
    /\ Raise("backfill")
    /\ UNCHANGED <<calls, seconds, run, boundary, procs>>
    /\ UNCHANGED <<db, log, exported>>

\* lines 392-396: the staged updates are written and committed.
BackfillWrite ==
    /\ pc = "backfill_loop"
    /\ cursor = << >>
    /\ db' = ApplyUpdates(db, updates)
    /\ Logged("Updated")
    /\ pc' = "mkdirs"
    /\ NoLocals
    /\ NoLookup
    /\ UNCHANGED <<geocoded, conn, exported, failedAt, raisedIn>>

\* line 432: mkdirs(args.export_dir).
Mkdirs ==
    /\ pc = "mkdirs"
    /\ pc' = "markers"
    /\ NoLookup
    /\ UNCHANGED <<db, num_pages, page_index, fetched, listings, new_count, cursor, updates, log,
                   geocoded, conn, exported, failedAt, raisedIn>>

\* lines 311-315: os.makedirs raises an OSError other than EEXIST.
MkdirsRaises ==
    /\ pc = "mkdirs"
    /\ raisedIn' = "mkdirs"
    /\ Raise("mkdirs")
    /\ NoLookup
    /\ UNCHANGED <<db, log, geocoded, exported>>

\* lines 398-408: export_markers_to_json, no selected row having area 0.
ExportMarkers ==
    /\ pc = "markers"
    /\ \A id \in MarkerRows(db) : db[id].area # 0
    /\ Logged("Exporting marker data")
    /\ exported' = [exported EXCEPT !.markers = TRUE]
    /\ pc' = "data"
    /\ NoLookup
    /\ UNCHANGED <<db, num_pages, page_index, fetched, listings, new_count, cursor, updates,
                   geocoded, conn, failedAt, raisedIn>>

\* lines 406-408: row[3] / row[2] raises ZeroDivisionError for a row of
\* area 0, or dump_json cannot write the file.
ExportMarkersRaises ==
    /\ pc = "markers"
    /\ \E cause \in {"ZeroDivisionError", "IOError"} :
          cause = "ZeroDivisionError" =>
              \E id \in MarkerRows(db) : db[id].area = 0
    /\ Logged("Exporting marker data")
    /\ raisedIn' = "export_markers_to_json"
    /\ Raise("markers")
    /\ NoLookup
    /\ UNCHANGED <<db, geocoded, exported>>

\* lines 418-426: export_data_to_json.
ExportData ==
    /\ pc = "data"
    /\ Logged("Exporting raw data")
    /\ exported' = [exported EXCEPT !.data = TRUE]
    /\ pc' = "close"
    /\ NoLookup
    /\ UNCHANGED <<db, num_pages, page_index, fetched, listings, new_count, cursor, updates,
                   geocoded, conn, failedAt, raisedIn>>

\* line 426: dump_json cannot write the file.
ExportDataRaises ==
    /\ pc = "data"
    /\ Logged("Exporting raw data")
    /\ raisedIn' = "export_data_to_json"
    /\ Raise("data")
    /\ NoLookup
    /\ UNCHANGED <<db, geocoded, exported>>

\* lines 77-78: the with block ends normally and the generator's finally
\* clause closes the connection.
CloseDatabase ==
    /\ pc = "close"
    /\ conn' = "closed"
    /\ pc' = "finish"
    /\ NoLookup
    /\ UNCHANGED <<db, num_pages, page_index, fetched, listings, new_count, cursor, updates, log,
                   geocoded, exported, failedAt, raisedIn>>

\* lines 435-436: except Exception as e: logger.exception(e).
LogException ==
    /\ pc = "except"
    /\ Logged("exception")
    /\ pc' = "finish"
    /\ NoLookup
    /\ UNCHANGED <<db, num_pages, page_index, fetched, listings, new_count, cursor, updates,
                   geocoded, conn, exported, failedAt, raisedIn>>

\* line 438: logger.info('Finished'); the process ends.
Finish ==
    /\ pc = "finish"
    /\ Logged("Finished")
    /\ pc' = "finished"
    /\ NoLookup
    /\ UNCHANGED <<db, num_pages, page_index, fetched, listings, new_count, cursor, updates,
                   geocoded, conn, exported, failedAt, raisedIn>>

\* The program is started again: a new process with the same database
\* file and cache file.
NextRun ==
    /\ pc = "finished"
    /\ StartProcess
    /\ executed' = << >>
    /\ raised' = {}
    /\ stored' = << >>
    /\ geocoded' = {}
    /\ UNCHANGED <<run, boundary, procs>>
    /\ pc' = "prepare"
    /\ num_pages' = << >>
    /\ page_index' = 1
    /\ fetched' = << >>
    /\ listings' = << >>
    /\ new_count' = 0
    /\ cursor' = << >>
    /\ updates' = << >>
    /\ log' = <<"Started">>
    /\ conn' = "none"
    /\ failedAt' = "none"
    /\ raisedIn' = "none"
    /\ exported' = NoExport
    /\ UNCHANGED db

Next ==
    \/ PrepareDatabase
    \/ PrepareDatabaseRaises
    \/ IngestPage
    \/ IngestPageRaises
    \/ IngestDone
    \/ BackfillSelect
    \/ BackfillRow
    \/ BackfillRowRaises
    \/ BackfillWrite
    \/ Mkdirs
    \/ MkdirsRaises
    \/ ExportMarkers
    \/ ExportMarkersRaises
    \/ ExportData
    \/ ExportDataRaises
    \/ CloseDatabase
    \/ LogException
    \/ Finish
    \/ NextRun

Spec == Init /\ [][Next]_vars

----------------------------------------------------------------------------
(* The listing store and the coordinate backfill within the run.           *)

\* C7: store_listings returns the number of identifiers of the listing
\* mapping that were not in the store before the call, and calling it again
\* with the same mapping returns 0 and leaves the store unchanged.  Checked
\* on every pass of the ingestion loop (line 367), for the mapping the pass
\* extracted and the store it found.
C7_StoreCountsNewRows ==
    [][ (pc = "ingest" /\ pc' = "ingest") =>
          LET again == store_listings(db', listings'[1], clock')
          IN  /\ new_count' = Cardinality(DOMAIN listings'[1] \ DOMAIN db)
              /\ again.count = 0
              /\ again.db = db' ]_vars

\* The columns of a row other than its coordinates.
Written(row) ==
    <<row.street, row.number, row.suburb, row.rent, row.area, row.date>>

\* C8: first write wins.  In every step of the run no stored row is deleted
\* and the street, number, suburb, rent, area and date of a stored id stay
\* as they are; its latitude and longitude stay as they are too, except in
\* the step in which add_coordinates writes its updates (lines 392-394).
C8_FirstWriteWins ==
    [][ \A id \in DOMAIN db :
          /\ id \in DOMAIN db'
          /\ Written(db'[id]) = Written(db[id])
          /\ (\/ db'[id].latitude # db[id].latitude
              \/ db'[id].longitude # db[id].longitude)
                 => (pc = "backfill_loop" /\ pc' = "mkdirs") ]_vars

\* A pass of the ingestion loop has just stored a mapping holding a known
\* id with another rent and another street, and the row, which an earlier
\* run had given coordinates, is as it was.
C8_Witness ==
    /\ pc = "ingest"
    /\ listings # << >>
    /\ \E id \in DOMAIN listings[1] \cap DOMAIN db :
          /\ listings[1][id].rent # db[id].rent
          /\ listings[1][id].street # db[id].street
          /\ db[id].latitude # None

\* The ids of a sequence of selected rows.
Selected(rows) == { rows[i] : i \in DOMAIN rows }

\* C9: add_coordinates looks up exactly the stored rows whose latitude is
\* absent and whose street, number and suburb are all present and not
\* empty: while its loop runs, the rows visited and the rows still to
\* visit are those rows, so a row stored with empty strings for its address
\* is never among them.
C9_GeocodesAddressedRows ==
    pc = "backfill_loop" =>
        geocoded \cup Selected(cursor) =
            { id \in DOMAIN db :
                /\ db[id].latitude = None
                /\ db[id].street \notin {None, ""}
                /\ db[id].number \notin {None, ""}
                /\ db[id].suburb \notin {None, ""} }

----------------------------------------------------------------------------
(* The top level: lines 428-438.                                           *)

\* The stage a log record belongs to, in the order of lines 430-438.
LogRank(record) ==
    CASE record = "Started" -> 0
      [] record \in {"Fetching page", "Overall"} -> 1
      [] record \in {"Looking up", "Updated"} -> 2
      [] record = "Exporting marker data" -> 3
      [] record = "Exporting raw data" -> 4
      [] record = "exception" -> 5
      [] OTHER -> 6

\* The stage that raised, on the scale of LogRank; mkdirs logs nothing and
\* comes after the backfill.
FailRank(stage) ==
    CASE stage = "prepare" -> 0
      [] stage = "ingest" -> 1
      [] stage \in {"backfill", "mkdirs"} -> 2
      [] stage = "markers" -> 3
      [] OTHER -> 4

\* C10: failure containment.  The records of a run appear in the order
\* ingestion, backfill, marker export, raw export; once a stage has raised
\* no record of a later stage appears and the orchestrator is in the except
\* clause or after it; the exception is logged (and only then); the except
\* clause and the final logging are never blocked, and a process that has
\* ended has logged "Finished" last.
C10_FailureContained ==
    /\ \A i, j \in DOMAIN log : i < j => LogRank(log[i]) <= LogRank(log[j])
    /\ failedAt # "none" =>
          /\ pc \in {"except", "finish", "finished"}
          /\ \A i \in DOMAIN log :
                \/ LogRank(log[i]) <= FailRank(failedAt)
                \/ log[i] \in {"exception", "Finished"}
          /\ pc \in {"finish", "finished"} =>
                \E i \in DOMAIN log : log[i] = "exception"
    /\ failedAt = "none" => \A i \in DOMAIN log : log[i] # "exception"
    /\ pc = "except" => ENABLED LogException
    /\ pc = "finish" => ENABLED Finish
    /\ pc = "finished" => log[Len(log)] = "Finished"

\* A run in which ingestion and backfill ran, the marker export raised and
\* the process ended.
C10_Witness ==
    /\ pc = "finished"
    /\ failedAt = "markers"
    /\ log = <<"Started", "Fetching page", "Overall", "Looking up", "Updated",
               "Exporting marker data", "exception", "Finished">>

\* C11: the connection is closed on every exit path: a process that has
\* ended holds no open connection, whether the stages completed or a step
\* after sqlite3.connect (the CREATE TABLE of line 61 included) raised.
C11_ConnectionClosed ==
    pc = "finished" => conn # "open"

----------------------------------------------------------------------------
(* The rate limiter again: SpecLimiter.                                    *)

\* C12: once calls + 1 invocations have been issued, the (calls + 1)-th
\* execution of the wrapped function started at least `seconds` after the
\* first one, whatever the arrival times of the invocations.
C12_NextWindowAfterSeconds ==
    Len(executed) > calls =>
        executed[calls + 1] - executed[1] >= seconds

\* calls + 1 invocations arrived together, the last of them slept, and ran
\* exactly `seconds` after the first.
C12_Witness ==
    /\ Len(executed) = calls + 1
    /\ calls > 1
    /\ delay > 0
    /\ executed[calls] = executed[1]
    /\ executed[calls + 1] = executed[1] + seconds

----------------------------------------------------------------------------
(* The ingestion loop: lines 357-377.                                      *)

\* C13: the total page count is determined once, from page 1: once the
\* loop has a total, no later pass of the loop changes it.
C13_TotalReadOnce ==
    [][ (pc = "ingest" /\ pc' = "ingest" /\ num_pages # << >>) =>
          num_pages' = num_pages ]_vars

\* C13 as the code has it: the total is read again from every page fetched;
\* while the loop runs, the bound it tests is the number in the pager of the
\* page fetched last.
C13_TotalReadFromEachPage ==
    (pc = "ingest" /\ fetched # << >>) => num_pages = fetched[1].pager

\* The second page has been fetched, so the first page's pager did not say
\* 1; the second page's pager says 1 and that is now the loop's bound.
C13_Witness ==
    /\ pc = "ingest"
    /\ page_index = 3
    /\ fetched # << >>
    /\ fetched[1].pager = <<1>>
    /\ num_pages = <<1>>

\* C14: the ingestion loop fetches the page indices in increasing order,
\* one at a time, and stops as soon as the index exceeds the total the site
\* reports, for every total, 0 included: a pass of the loop is only made
\* with no total yet or with an index not above the total, and it moves the
\* index on by one.
C14_StopsPastTotal ==
    [][ (pc = "ingest" /\ pc' = "ingest") =>
          /\ num_pages = << >> \/ page_index <= num_pages[1]
          /\ page_index' = page_index + 1 ]_vars

----------------------------------------------------------------------------
(* The coordinate backfill: lines 379-396.                                 *)

\* C15: a lookup that raises (transport error, timeout) for one candidate
\* row does not abort the loop of add_coordinates: the loop goes on with
\* the rows still to visit, and the updates staged so far are kept to be
\* written.
C15_RaiseDoesNotAbort ==
    [][ (pc = "backfill_loop" /\ ret'.op = "raise") =>
          /\ pc' = "backfill_loop"
          /\ cursor' = Tail(cursor)
          /\ updates' = updates ]_vars

----------------------------------------------------------------------------
(* The extractor within the ingestion loop: lines 147-191, 364-367.        *)

\* The rent and the area a block's own criteria give, each << >> when no
\* value of the block has the suffix.
OwnCriteria(entry) ==
    ScanCriteria(entry.criteria, 1,
                 [rent |-> << >>, area |-> << >>, error |-> ""])

\* C16: the rent and the area of every listing extract_listings returns
\* come from the listing's own block: a block without a rent value (or
\* without an area value) yields no listing with a rent (an area), and
\* never one with the value of an earlier block of the page.  Checked for
\* the page the ingestion loop fetched last and the listings it extracted.
C16_CriteriaFromOwnBlock ==
    (pc = "ingest" /\ fetched # << >>) =>
        \A i \in DOMAIN fetched[1].blocks :
            LET entry == fetched[1].blocks[i]
                own == OwnCriteria(entry)
            IN  entry.link \in DOMAIN listings[1] =>
                    /\ own.rent = <<listings[1][entry.link].rent>>
                    /\ own.area = <<listings[1][entry.link].area>>

\* What extract_listings gives for a page holding the one block: whether
\* the block by itself is well formed.
Alone(entry) == extract_listings([pager |-> <<1>>, blocks |-> <<entry>>])

\* C17: a malformed listing block is skipped without aborting the page:
\* extract_listings never raises out of the ingestion loop, and the
\* listings of a fetched page hold every block of the page that is well
\* formed by itself.
C17_MalformedBlockSkipped ==
    /\ raisedIn # "extract_listings"
    /\ (pc = "ingest" /\ fetched # << >>) =>
          \A i \in DOMAIN fetched[1].blocks :
              LET entry == fetched[1].blocks[i]
              IN  (Alone(entry).error = "" /\ entry.link # NoLink)
                      => entry.link \in DOMAIN listings[1]

----------------------------------------------------------------------------
(* The rate limiter's delay: SpecLimiter.                                  *)

\* The timestamps of lc that are inside the window (now - seconds, now].
StillInWindow(lc, now) == SelectSeq(lc, LAMBDA x : now - x < seconds)

\* C18: when the wrapper delays an invocation, the sleep it asks for ends
\* when the oldest timestamp inside the window leaves the window (oldest +
\* seconds), for every calls >= 1; and the timestamp it records is the time
\* read after the sleep.
C18_DelayUntilOldestLeaves ==
    [][ (Len(executed') > Len(executed) /\ delay' # NoDelay) =>
          LET inside == StillInWindow(last_calls, clock)
          IN  /\ delay' = IF inside = << >> THEN 0
                          ELSE inside[1] + seconds - clock
              /\ last_calls'[Len(last_calls')] = clock'
              /\ clock' >= clock + delay' ]_vars

----------------------------------------------------------------------------
(* SpecShared: two invocations of the program running at the same time     *)
(* against one geocode cache file (lines 247-267).  Each process has its    *)
(* own cache dict, loaded when the module is imported, and its own rate     *)
(* limiter, which only delays its lookups and is left out here.            *)

InitShared ==
    /\ calls = DefaultCalls
    /\ seconds = DefaultSeconds * TicksPerSecond
    /\ clock = 0
    /\ last_calls = << >>
    /\ delay = NoDelay
    /\ executed = << >>
    /\ IdleMemo
    /\ IdleRun

sharedFrame == <<calls, seconds, clock, last_calls, delay, executed, cache,
                 run, boundary, runVars>>

\* lines 247-254: a process starts and loads the file into its cache.
SharedStart ==
    /\ \E p \in Procs :
          /\ procs[p].pc = "off"
          /\ procs' = [procs EXCEPT ![p] = [pc |-> "running",
                                            cache |-> LoadCache(file)]]
    /\ ret' = NoCall
    /\ UNCHANGED <<file, stored, raised, sharedFrame>>

\* line 262: a process looks up an address its cache holds.
SharedLookupHit ==
    /\ \E p \in Procs, address \in GeoAddresses :
          /\ procs[p].pc = "running"
          /\ Key(address) \in DOMAIN procs[p].cache
          /\ ret' = [op |-> "hit", key |-> Key(address),
                     value |-> procs[p].cache[Key(address)], ran |-> 0]
    /\ UNCHANGED <<procs, file, stored, raised, sharedFrame>>

\* lines 263-267: a process looks up an address its cache lacks and the
\* geocoder answers: the value is put into the process's cache and the
\* whole cache is written over the file.
SharedLookupMiss ==
    /\ \E p \in Procs, address \in GeoAddresses, reply \in Replies :
          LET key == Key(address)
              value == Geocode(reply)
              c == Put(procs[p].cache, key, value)
          IN  /\ procs[p].pc = "running"
              /\ key \notin DOMAIN procs[p].cache
              /\ reply.kind # "raise"
              /\ procs' = [procs EXCEPT ![p].cache = c]
              /\ file' = Dump(c)
              /\ stored' = IF key \in DOMAIN stored THEN stored
                           ELSE Put(stored, key, [value |-> value, run |-> p])
              /\ ret' = [op |-> "miss", key |-> key, value |-> value,
                         ran |-> 1]
    /\ UNCHANGED <<raised, sharedFrame>>

\* lines 263-264 with the geocoder raising: nothing is stored or written.
SharedLookupRaise ==
    /\ \E p \in Procs, address \in GeoAddresses :
          /\ procs[p].pc = "running"
          /\ Key(address) \notin DOMAIN procs[p].cache
          /\ raised' = raised \cup {Key(address)}
          /\ ret' = [op |-> "raise", key |-> Key(address), value |-> << >>,
                     ran |-> 1]
    /\ UNCHANGED <<procs, file, stored, sharedFrame>>

\* A process ends.
SharedExit ==
    /\ \E p \in Procs :
          /\ procs[p].pc = "running"
          /\ procs' = [procs EXCEPT ![p].pc = "done"]
    /\ ret' = NoCall
    /\ UNCHANGED <<file, stored, raised, sharedFrame>>

NextShared ==
    \/ SharedStart
    \/ SharedLookupHit
    \/ SharedLookupMiss
    \/ SharedLookupRaise
    \/ SharedExit

SpecShared == InitShared /\ [][NextShared]_vars

\* C19: two processes sharing the cache file are unsafe.  Each loads the
\* mapping once, at its start, and on every miss writes its whole cache
\* over the file without locking or merging: the file, once written, is
\* always the cache of one of the processes, so the entries another process
\* persisted meanwhile are dropped (C19_Witness is the lost update).
C19_FileIsOneProcessCache ==
    file.exists =>
        \E p \in Procs : procs[p].pc # "off" /\ file.data = procs[p].cache

\* Both processes have finished, each had persisted an entry of its own,
\* and the entry one of them persisted is absent from the file.
C19_Witness ==
    /\ \A p \in Procs : procs[p].pc = "done"
    /\ \A p \in Procs : \E key \in DOMAIN stored : stored[key].run = p
    /\ \E key \in DOMAIN stored : key \notin DOMAIN file.data

----------------------------------------------------------------------------
(* The coordinates of the stored rows: Spec.                               *)

\* C20: in every reachable state every row has its latitude and longitude
\* both absent or both present, and coordinates once written are never
\* written again: no step changes the latitude or longitude of a row that
\* has them.
C20_CoordinatesPaired ==
    /\ [](\A id \in DOMAIN db :
            (db[id].latitude = None) <=> (db[id].longitude = None))
    /\ [][ \A id \in DOMAIN db :
              db[id].latitude # None =>
                  /\ id \in DOMAIN db'
                  /\ db'[id].latitude = db[id].latitude
                  /\ db'[id].longitude = db[id].longitude ]_vars

\* add_coordinates has just written the coordinates of row 2, which it
\* looked up in this run, while row 1 has had its coordinates since an
\* earlier run.
C20_Witness ==
    /\ pc = "mkdirs"
    /\ geocoded = {"2"}
    /\ DOMAIN db = {"1", "2"}
    /\ \A id \in DOMAIN db :
          db[id].latitude # None /\ db[id].longitude # None

====
